---------------------------- MODULE Spec2Model ----------------------------
(***************************************************************************)
(* Model of src/Nav_Calc.py: the NAVCalculator batch pipeline.             *)
(*                                                                         *)
(*   load_data -> prepare_holdings -> prepare_prices -> calculate_assets   *)
(*             -> calculate_cash_and_liabilities -> prepare_units          *)
(*             -> (assembly of the result frame) -> save_nav               *)
(*                                                                         *)
(* Timestamps are integers counted in ticks, TicksPerDay ticks to a        *)
(* calendar day; a timestamp that is a multiple of TicksPerDay is a        *)
(* midnight.  Amounts, quantities, prices and unit counts are integers     *)
(* and arithmetic on them is exact (binary floating-point rounding is not  *)
(* modelled); a quotient is kept as a reduced fraction, with denominator 0 *)
(* for the non-finite results of a division by zero.  A missing cell (NaN) *)
(* is the empty sequence and a present value v is <<v>>.                   *)
(***************************************************************************)
EXTENDS Integers, Sequences, FiniteSets, TLC

VARIABLES
    pc,                 \* position of the __main__ script
    err,                \* the exception that aborted the run, "" if none
    csv,                \* the four input files: sequences of rows
    holdings,           \* self.holdings
    prices,             \* self.prices
    cashflows,          \* self.cashflows
    units,              \* self.units
    all_dates,          \* self.all_dates
    holdings_pivot,     \* local of compute_nav
    prices_pivot,       \* local of compute_nav
    assets_securities,  \* local of compute_nav
    cash_balance,       \* local of compute_nav
    liabilities,        \* local of compute_nav
    dividends,          \* local of compute_nav (daily, not cumulated)
    units_series,       \* local of compute_nav
    nav_df,             \* the frame compute_nav returns
    daily_nav           \* rows written to daily_nav.csv

vars == <<pc, err, csv, holdings, prices, cashflows, units, all_dates,
          holdings_pivot, prices_pivot, assets_securities, cash_balance,
          liabilities, dividends, units_series, nav_df, daily_nav>>

---------------------------------------------------------------------------
(* Bounds of the model. *)

MaxDay      == 2    \* calendar days 0..MaxDay
TicksPerDay == 2    \* resolution of the time of day
MaxHoldings == 2    \* rows of holdings.csv in the valuation inputs
MaxPrices   == 2    \* rows of prices.csv in the valuation inputs
MaxCash     == 2    \* rows of cashflows.csv in the cash inputs
MaxUnits    == 2    \* rows of units_outstanding.csv in the units inputs

---------------------------------------------------------------------------
(* Generic helpers. *)

NaN == <<>>

RECURSIVE SeqSum(_)
SeqSum(s) == IF s = <<>> THEN 0 ELSE s[1] + SeqSum(Tail(s))

RECURSIVE SetSum(_, _)
SetSum(S, f) ==
    IF S = {} THEN 0
    ELSE LET x == CHOOSE y \in S : TRUE IN f[x] + SetSum(S \ {x}, f)

SetMin(S) == CHOOSE x \in S : \A y \in S : x <= y
SetMax(S) == CHOOSE x \in S : \A y \in S : x >= y

Abs(n) == IF n < 0 THEN -n ELSE n

RECURSIVE GCD(_, _)
GCD(a, b) == IF b = 0 THEN a ELSE GCD(b, a % b)

---------------------------------------------------------------------------
(* Text labels are sequences of characters. *)

UpperChars == <<"A","B","C","D","E","F","G","H","I","J","K","L","M",
                "N","O","P","Q","R","S","T","U","V","W","X","Y","Z">>
LowerChars == <<"a","b","c","d","e","f","g","h","i","j","k","l","m",
                "n","o","p","q","r","s","t","u","v","w","x","y","z">>

LowerChar(c) ==
    IF \E i \in 1..26 : UpperChars[i] = c
    THEN LowerChars[CHOOSE i \in 1..26 : UpperChars[i] = c]
    ELSE c

StrLower(s) == [i \in 1..Len(s) |-> LowerChar(s[i])]

StrContains(s, sub) ==
    \E i \in 1..(Len(s) - Len(sub) + 1) : SubSeq(s, i, i + Len(sub) - 1) = sub

FeeWord      == <<"f","e","e">>
DividendWord == <<"d","i","v","i","d","e","n","d">>

---------------------------------------------------------------------------
(* Input rows.  The rows of a file are listed in a canonical order (the   *)
(* order of their kind index): no operation of the pipeline depends on    *)
(* the order of the rows of a file.                                        *)

Timestamps == 0..((MaxDay + 1) * TicksPerDay - 1)
Midnights  == [d \in 1..(MaxDay + 1) |-> (d - 1) * TicksPerDay]

Tickers    == <<"A", "B">>
Quantities == <<-1, 2>>
Closes     == <<3, 5>>
Amounts    == <<-1, 2>>
UnitCounts == <<0, 1, 2>>

Subscription  == <<"s","u","b","s","c","r","i","p","t","i","o","n">>
MgmtFeeUpper  == <<"M","g","m","t"," ","F","E","E">>
DividendLabel == <<"D","i","v","i","d","e","n","d">>
DividendFee   == <<"d","i","v","i","d","e","n","d"," ","f","e","e">>
ManagementFee == <<"m","a","n","a","g","e","m","e","n","t"," ","f","e","e">>
TypeLabels    == <<Subscription, MgmtFeeUpper, DividendLabel, DividendFee>>

HoldingKind(k) ==
    [date     |-> Midnights[(k \div (Len(Tickers) * Len(Quantities))) + 1],
     ticker   |-> Tickers[((k \div Len(Quantities)) % Len(Tickers)) + 1],
     quantity |-> Quantities[(k % Len(Quantities)) + 1]]
NumHoldingKinds == Len(Midnights) * Len(Tickers) * Len(Quantities)

PriceKind(k) ==
    [date   |-> Midnights[(k \div (Len(Tickers) * Len(Closes))) + 1],
     ticker |-> Tickers[((k \div Len(Closes)) % Len(Tickers)) + 1],
     close  |-> Closes[(k % Len(Closes)) + 1]]
NumPriceKinds == Len(Midnights) * Len(Tickers) * Len(Closes)

CashKind(k) ==
    [date   |-> Midnights[(k \div (Len(Amounts) * Len(TypeLabels))) + 1],
     amount |-> Amounts[((k \div Len(TypeLabels)) % Len(Amounts)) + 1],
     type   |-> TypeLabels[(k % Len(TypeLabels)) + 1]]
NumCashKinds == Len(Midnights) * Len(Amounts) * Len(TypeLabels)

UnitsKind(k) ==
    [date              |-> Midnights[(k \div Len(UnitCounts)) + 1],
     units_outstanding |-> UnitCounts[(k % Len(UnitCounts)) + 1]]
NumUnitsKinds == Len(Midnights) * Len(UnitCounts)

\* The non-decreasing sequences of at most n kind indexes below N.
IndexRuns(N, n) ==
    UNION { { s \in [1..m -> 0..(N - 1)] :
                \A i \in 1..(m - 1) : s[i] <= s[i + 1] } : m \in 0..n }

HoldingsLedgers ==
    { [i \in 1..Len(s) |-> HoldingKind(s[i])] : s \in IndexRuns(NumHoldingKinds, MaxHoldings) }
PricesLedgers ==
    { [i \in 1..Len(s) |-> PriceKind(s[i])] : s \in IndexRuns(NumPriceKinds, MaxPrices) }
CashLedgers ==
    { [i \in 1..Len(s) |-> CashKind(s[i])] : s \in IndexRuns(NumCashKinds, MaxCash) }
UnitsLedgers ==
    { [i \in 1..Len(s) |-> UnitsKind(s[i])] : s \in IndexRuns(NumUnitsKinds, MaxUnits) }

BaseHoldings == << [date |-> 0, ticker |-> "A", quantity |-> 2] >>
BasePrices   == << [date |-> 0, ticker |-> "A", close |-> 3] >>
BaseCash     == << [date |-> 0, amount |-> 2, type |-> Subscription] >>
BaseUnits    == << [date |-> 0, units_outstanding |-> 2] >>

\* A few price files: one close, a changed close, a late first close, an
\* unheld ticker, two tickers, a repeated (date, ticker).
RepeatedPrices == << [date |-> 0, ticker |-> "A", close |-> 3],
                     [date |-> 0, ticker |-> "A", close |-> 5] >>

PriceChoices ==
    { BasePrices,
      << [date |-> 0, ticker |-> "A", close |-> 3],
         [date |-> Midnights[2], ticker |-> "A", close |-> 5] >>,
      << [date |-> Midnights[2], ticker |-> "A", close |-> 3] >>,
      << [date |-> 0, ticker |-> "B", close |-> 5] >>,
      << [date |-> 0, ticker |-> "A", close |-> 3],
         [date |-> Midnights[3], ticker |-> "B", close |-> 5] >>,
      << [date |-> Midnights[2], ticker |-> "B", close |-> 3],
         [date |-> Midnights[3], ticker |-> "A", close |-> 5] >>,
      RepeatedPrices }

\* A few holdings files: one position, two netted rows of a later day, two
\* tickers, a late single ticker, a position that changes.
HoldingChoices ==
    { BaseHoldings,
      << [date |-> Midnights[2], ticker |-> "A", quantity |-> -1],
         [date |-> Midnights[2], ticker |-> "A", quantity |-> 2] >>,
      << [date |-> 0, ticker |-> "A", quantity |-> 2],
         [date |-> Midnights[2], ticker |-> "B", quantity |-> -1] >>,
      << [date |-> Midnights[3], ticker |-> "B", quantity |-> 2] >>,
      << [date |-> 0, ticker |-> "A", quantity |-> 2],
         [date |-> Midnights[3], ticker |-> "A", quantity |-> -1] >> }

\* Inputs that vary the holdings (against the price choices) and the prices
\* (against the holding choices).
ValuationInputs ==
    { [holdings |-> h, prices |-> p, cashflows |-> BaseCash, units |-> BaseUnits] :
        h \in HoldingsLedgers, p \in PriceChoices }
    \cup
    { [holdings |-> h, prices |-> p, cashflows |-> BaseCash, units |-> BaseUnits] :
        h \in HoldingChoices, p \in PricesLedgers }

\* Inputs that vary the cash-flow ledger.
CashInputs ==
    { [holdings |-> BaseHoldings, prices |-> BasePrices, cashflows |-> c, units |-> BaseUnits] :
        c \in CashLedgers }

\* Inputs that vary the units ledger, with and without a repeated price.
UnitsInputs ==
    { [holdings |-> BaseHoldings, prices |-> p, cashflows |-> BaseCash, units |-> u] :
        p \in {BasePrices, RepeatedPrices}, u \in UnitsLedgers }

\* Inputs of at most one row per file: the cash-flow and the units row at
\* any time of any day, the holdings and the price row at the first or the
\* last timestamp.
EndStamps == {0, (MaxDay + 1) * TicksPerDay - 1}

TimestampInputs ==
    { [holdings  |-> h, prices |-> p, cashflows |-> c, units |-> u] :
        h \in {<<>>} \cup { << [date |-> t, ticker |-> "A", quantity |-> 2] >> : t \in EndStamps },
        p \in {<<>>} \cup { << [date |-> t, ticker |-> "A", close |-> 3] >> : t \in EndStamps },
        c \in {<<>>} \cup { << [date |-> t, amount |-> 2, type |-> DividendLabel] >> : t \in Timestamps },
        u \in {<<>>} \cup { << [date |-> t, units_outstanding |-> 2] >> : t \in Timestamps } }

\* The two scenarios of the specification (2024-01-01 is day 0).
ScenarioNav ==
    [holdings  |-> << [date |-> 0, ticker |-> "AAA", quantity |-> 100] >>,
     prices    |-> << [date |-> 0, ticker |-> "AAA", close |-> 10],
                      [date |-> TicksPerDay, ticker |-> "AAA", close |-> 12] >>,
     cashflows |-> << [date |-> 0, amount |-> 1000, type |-> Subscription] >>,
     units     |-> << [date |-> 0, units_outstanding |-> 100] >>]
ScenarioFee ==
    [ScenarioNav EXCEPT !.cashflows =
        << [date |-> 0, amount |-> 1000, type |-> Subscription],
           [date |-> TicksPerDay, amount |-> -50, type |-> ManagementFee] >>]

Inputs ==
    ValuationInputs \cup CashInputs \cup UnitsInputs \cup TimestampInputs
        \cup {ScenarioNav, ScenarioFee}

---------------------------------------------------------------------------
(* Exceptions.  src/Nav_Calc.py defines no exception class: the names of  *)
(* the specification stand for the exceptions the statements raise.       *)

EmptyInputError   == "AttributeError: Can only use .dt accessor with datetimelike values"
MissingUnitsError == "ValueError: Units outstanding missing for some dates"
DuplicateEntries  == "ValueError: Index contains duplicate entries, cannot reshape"
DuplicateLabels   == "ValueError: cannot reindex on an axis with duplicate labels"

---------------------------------------------------------------------------
(* load_data *)

\* Series.dt.normalize(): the midnight of the timestamp's day.
Normalize(t) == t - (t % TicksPerDay)

NormalizeDates(df) == [i \in 1..Len(df) |-> [df[i] EXCEPT !.date = Normalize(df[i].date)]]

FrameDates(df) == { df[i].date : i \in 1..Len(df) }

\* read_csv leaves the date column of a file without rows untyped, and the
\* .dt accessor of line 36 raises on it: the position (1..4) of the first
\* such frame, 5 when every frame has rows.
FirstEmptyFrameFirstOnly(frames) == IF frames[1] = <<>> THEN 1 ELSE 5

FirstEmptyFrame(frames) ==
    IF \E k \in 1..4 : frames[k] = <<>>
    THEN SetMin({ k \in 1..4 : frames[k] = <<>> })
    ELSE 5

\* pd.date_range(min_date, max_date, freq="D")
DateRangeExclusive(min_date, max_date) ==
    [i \in 1..((max_date - min_date) \div TicksPerDay) |->
        min_date + (i - 1) * TicksPerDay]

DateRange(min_date, max_date) ==
    [i \in 1..(((max_date - min_date) \div TicksPerDay) + 1) |->
        min_date + (i - 1) * TicksPerDay]

LoadData ==
    /\ pc = "load_data"
    /\ LET frames == <<csv.holdings, csv.prices, csv.cashflows, csv.units>>
           bad    == FirstEmptyFrame(frames)
           df(k)  == IF k < bad THEN NormalizeDates(frames[k]) ELSE frames[k]
           dates  == UNION { FrameDates(df(k)) : k \in 1..4 }
       IN  /\ holdings'  = df(1)
           /\ prices'    = df(2)
           /\ cashflows' = df(3)
           /\ units'     = df(4)
           /\ IF bad <= 4
              THEN /\ pc' = "failed"
                   /\ err' = EmptyInputError
                   /\ all_dates' = <<>>
              ELSE /\ pc' = "prepare_holdings"
                   /\ err' = ""
                   /\ all_dates' = DateRange(SetMin(dates), SetMax(dates))
    /\ UNCHANGED <<csv, holdings_pivot, prices_pivot, assets_securities,
                   cash_balance, liabilities, dividends, units_series,
                   nav_df, daily_nav>>

Init ==
    /\ csv \in Inputs
    /\ pc = "load_data"
    /\ err = ""
    /\ holdings = <<>>
    /\ prices = <<>>
    /\ cashflows = <<>>
    /\ units = <<>>
    /\ all_dates = <<>>
    /\ holdings_pivot = <<>>
    /\ prices_pivot = <<>>
    /\ assets_securities = <<>>
    /\ cash_balance = <<>>
    /\ liabilities = <<>>
    /\ dividends = <<>>
    /\ units_series = <<>>
    /\ nav_df = <<>>
    /\ daily_nav = <<>>

---------------------------------------------------------------------------
(* Frames and series.  A frame is [cols, rows]: rows[i] is the row of      *)
(* all_dates[i], a function from the column labels to cells.  A series is  *)
(* a sequence of cells aligned with all_dates.                             *)

IsNa(cell) == cell = NaN

\* fillna(method="ffill") of one column: the last present cell at or above row i.
FFillCellNoCarry(rows, i, t) == rows[i][t]

RECURSIVE FFillCell(_, _, _)

FFillCell(rows, i, t) ==
    IF ~IsNa(rows[i][t]) THEN rows[i][t]
    ELSE IF i = 1 THEN NaN
    ELSE FFillCell(rows, i - 1, t)

FFill(frame) ==
    [frame EXCEPT !.rows =
        [i \in 1..Len(frame.rows) |-> [t \in frame.cols |-> FFillCell(frame.rows, i, t)]]]

\* fillna(v) of a frame.
FillNa(frame, v) ==
    [frame EXCEPT !.rows =
        [i \in 1..Len(frame.rows) |->
            [t \in frame.cols |-> IF IsNa(frame.rows[i][t]) THEN <<v>> ELSE frame.rows[i][t]]]]

\* fillna(method="ffill") and fillna(v) of a series.
RECURSIVE FFillSeries(_, _)
FFillSeries(s, i) ==
    IF ~IsNa(s[i]) THEN s[i]
    ELSE IF i = 1 THEN NaN
    ELSE FFillSeries(s, i - 1)

FillNaSeries(s, v) == [i \in 1..Len(s) |-> IF IsNa(s[i]) THEN v ELSE s[i][1]]

\* Series.cumsum() of a series without missing cells.
RECURSIVE CumSumAt(_, _)
CumSumAt(s, i) == IF i = 0 THEN 0 ELSE CumSumAt(s, i - 1) + s[i]

CumSumDaily(s) == s

CumSum(s) == [i \in 1..Len(s) |-> CumSumAt(s, i)]

---------------------------------------------------------------------------
(* prepare_holdings *)

HoldingsAt(df, d, t) == SelectSeq(df, LAMBDA r : r.date = d /\ r.ticker = t)

\* groupby(["date","ticker"])["quantity"].sum(), pivot, reindex(all_dates)
HoldingsPivotRaw(df, dates) ==
    LET cols == { df[i].ticker : i \in 1..Len(df) }
    IN  [cols |-> cols,
         rows |-> [i \in 1..Len(dates) |->
                    [t \in cols |->
                        LET g == HoldingsAt(df, dates[i], t)
                        IN  IF g = <<>> THEN NaN
                            ELSE << SeqSum([k \in 1..Len(g) |-> g[k].quantity]) >>]]]

PrepareHoldingsFrame(df, dates) == FillNa(FFill(HoldingsPivotRaw(df, dates)), 0)

PrepareHoldings ==
    /\ pc = "prepare_holdings"
    /\ holdings_pivot' = PrepareHoldingsFrame(holdings, all_dates)
    /\ pc' = "prepare_prices"
    /\ UNCHANGED <<err, csv, holdings, prices, cashflows, units, all_dates,
                   prices_pivot, assets_securities, cash_balance, liabilities,
                   dividends, units_series, nav_df, daily_nav>>

---------------------------------------------------------------------------
(* prepare_prices *)

PricesAt(df, d, t) == SelectSeq(df, LAMBDA r : r.date = d /\ r.ticker = t)

\* DataFrame.pivot raises when two rows share (date, ticker).
HasDuplicateEntries(df) ==
    \E i, j \in 1..Len(df) :
        i # j /\ df[i].date = df[j].date /\ df[i].ticker = df[j].ticker

PricesPivotRaw(df, dates) ==
    LET cols == { df[i].ticker : i \in 1..Len(df) }
    IN  [cols |-> cols,
         rows |-> [i \in 1..Len(dates) |->
                    [t \in cols |->
                        LET g == PricesAt(df, dates[i], t)
                        IN  IF g = <<>> THEN NaN ELSE << g[1].close >>]]]

PreparePricesFrameNoFill(df, dates) == PricesPivotRaw(df, dates)

PreparePricesFrame(df, dates) == FFill(PricesPivotRaw(df, dates))

PreparePrices ==
    /\ pc = "prepare_prices"
    /\ IF HasDuplicateEntries(prices)
       THEN /\ pc' = "failed"
            /\ err' = DuplicateEntries
            /\ UNCHANGED prices_pivot
       ELSE /\ pc' = "calculate_assets"
            /\ prices_pivot' = PreparePricesFrame(prices, all_dates)
            /\ UNCHANGED err
    /\ UNCHANGED <<csv, holdings, prices, cashflows, units, all_dates,
                   holdings_pivot, assets_securities, cash_balance, liabilities,
                   dividends, units_series, nav_df, daily_nav>>

---------------------------------------------------------------------------
(* calculate_assets *)

\* DataFrame.reindex(columns=..., fill_value=...): new columns get `fill`.
ReindexColumns(frame, cols, fill) ==
    [cols |-> cols,
     rows |-> [i \in 1..Len(frame.rows) |->
                [t \in cols |-> IF t \in frame.cols THEN frame.rows[i][t] ELSE fill]]]

\* Elementwise product of two cells: missing if either is missing.
MulCell(a, b) == IF IsNa(a) \/ IsNa(b) THEN NaN ELSE << a[1] * b[1] >>

\* DataFrame.sum(axis=1): missing cells are skipped.
RowSum(frame, i) ==
    LET present == { t \in frame.cols : ~IsNa(frame.rows[i][t]) }
    IN  SetSum(present, [t \in present |-> frame.rows[i][t][1]])

CalculateAssetsSeries(hp, pp) ==
    LET all_tickers == hp.cols \cup pp.cols
        h == ReindexColumns(hp, all_tickers, <<0>>)
        p == ReindexColumns(pp, all_tickers, NaN)
        market_value ==
            FillNa([cols |-> all_tickers,
                    rows |-> [i \in 1..Len(h.rows) |->
                               [t \in all_tickers |-> MulCell(h.rows[i][t], p.rows[i][t])]]], 0)
    IN  [i \in 1..Len(h.rows) |-> RowSum(market_value, i)]

CalculateAssets ==
    /\ pc = "calculate_assets"
    /\ assets_securities' = CalculateAssetsSeries(holdings_pivot, prices_pivot)
    /\ pc' = "calculate_cash_and_liabilities"
    /\ UNCHANGED <<err, csv, holdings, prices, cashflows, units, all_dates,
                   holdings_pivot, prices_pivot, cash_balance, liabilities,
                   dividends, units_series, nav_df, daily_nav>>

---------------------------------------------------------------------------
(* calculate_cash_and_liabilities *)

\* str.lower().str.contains(word, na=False) on the type column.
TypeMatches(r, word) == StrContains(StrLower(r.type), word)

\* df.groupby("date")["amount"].sum().reindex(all_dates).fillna(0)
AmountByDateFirst(df, dates) ==
    [i \in 1..Len(dates) |->
        LET g == SelectSeq(df, LAMBDA r : r.date = dates[i])
        IN  IF g = <<>> THEN 0 ELSE g[1].amount]

AmountByDate(df, dates) ==
    FillNaSeries(
        [i \in 1..Len(dates) |->
            LET g == SelectSeq(df, LAMBDA r : r.date = dates[i])
            IN  IF g = <<>> THEN NaN
                ELSE << SeqSum([k \in 1..Len(g) |-> g[k].amount]) >>],
        0)

\* The rows summed into cash_balance: every row of the ledger.
CashRowsExcludingDividends(df) == SelectSeq(df, LAMBDA r : ~TypeMatches(r, DividendWord))

CashRows(df) == df

FeeRows(df) == SelectSeq(df, LAMBDA r : TypeMatches(r, FeeWord))

DividendRows(df) == SelectSeq(df, LAMBDA r : TypeMatches(r, DividendWord))

\* (-fees_by_date).clip(lower=0) of one cell.
NegateAbs(x) == IF x < 0 THEN -x ELSE x

NegateClip(x) == IF -x < 0 THEN 0 ELSE -x

CashBalanceSeries(df, dates) == CumSum(AmountByDate(CashRows(df), dates))

LiabilitiesSeries(df, dates) ==
    LET fees_by_date == AmountByDate(FeeRows(df), dates)
    IN  [i \in 1..Len(dates) |-> NegateClip(fees_by_date[i])]

DividendSeries(df, dates) == AmountByDate(DividendRows(df), dates)

CalculateCashAndLiabilities ==
    /\ pc = "calculate_cash_and_liabilities"
    /\ cash_balance' = CashBalanceSeries(cashflows, all_dates)
    /\ liabilities' = LiabilitiesSeries(cashflows, all_dates)
    /\ dividends' = DividendSeries(cashflows, all_dates)
    /\ pc' = "prepare_units"
    /\ UNCHANGED <<err, csv, holdings, prices, cashflows, units, all_dates,
                   holdings_pivot, prices_pivot, assets_securities,
                   units_series, nav_df, daily_nav>>

---------------------------------------------------------------------------
(* prepare_units *)

\* Series.reindex raises when the index (the dates of the ledger) has a
\* repeated label.
HasDuplicateLabels(df) ==
    \E i, j \in 1..Len(df) : i # j /\ df[i].date = df[j].date

\* set_index("date")["units_outstanding"].reindex(all_dates)
UnitsRaw(df, dates) ==
    [i \in 1..Len(dates) |->
        LET g == SelectSeq(df, LAMBDA r : r.date = dates[i])
        IN  IF g = <<>> THEN NaN ELSE << g[1].units_outstanding >>]

UnitsFilled(df, dates) ==
    LET raw == UnitsRaw(df, dates)
    IN  [i \in 1..Len(dates) |-> FFillSeries(raw, i)]

\* units_series.isna().any()
AllNa(s) == \A i \in 1..Len(s) : IsNa(s[i])

AnyNa(s) == \E i \in 1..Len(s) : IsNa(s[i])

PrepareUnits ==
    /\ pc = "prepare_units"
    /\ IF HasDuplicateLabels(units)
       THEN /\ pc' = "failed"
            /\ err' = DuplicateLabels
            /\ UNCHANGED units_series
       ELSE IF AnyNa(UnitsFilled(units, all_dates))
       THEN /\ pc' = "failed"
            /\ err' = MissingUnitsError
            /\ UNCHANGED units_series
       ELSE /\ pc' = "assemble"
            /\ units_series' = UnitsFilled(units, all_dates)
            /\ UNCHANGED err
    /\ UNCHANGED <<csv, holdings, prices, cashflows, units, all_dates,
                   holdings_pivot, prices_pivot, assets_securities,
                   cash_balance, liabilities, dividends, nav_df, daily_nav>>

---------------------------------------------------------------------------
(* compute_nav, lines 97-111: the assembly of the result frame *)

Sign(n) == IF n > 0 THEN 1 ELSE IF n < 0 THEN -1 ELSE 0

\* Float division n / u of a number by a cell: a reduced fraction num/den
\* with den > 0; den = 0 stands for the non-finite results, num = 1 for
\* inf, -1 for -inf and 0 for NaN.
Divide(n, u) ==
    IF IsNa(u) THEN [num |-> 0, den |-> 0]
    ELSE IF u[1] = 0 THEN [num |-> Sign(n), den |-> 0]
    ELSE LET g == GCD(Abs(n), Abs(u[1]))
         IN  [num |-> (Sign(u[1]) * n) \div g, den |-> Abs(u[1]) \div g]

TotalAssets(a, c, dv) == a + c + dv

NetAssetsPlus(total, l) == total + l

NetAssets(total, l) == total - l

\* DatetimeIndex.date: the calendar day of a timestamp.
CalendarDay(t) == t \div TicksPerDay

ResultFrame(dates, assets, cash, liab, divs, us) ==
    LET cum == CumSum(divs)
    IN  [i \in 1..Len(dates) |->
            LET net == NetAssets(TotalAssets(assets[i], cash[i], cum[i]), liab[i])
            IN  [date                   |-> CalendarDay(dates[i]),
                 assets_from_securities |-> assets[i],
                 cash_balance           |-> cash[i],
                 cumulative_dividends   |-> cum[i],
                 liabilities            |-> liab[i],
                 net_assets             |-> net,
                 units_outstanding      |-> us[i],
                 nav_per_unit           |-> Divide(net, us[i])]]

Assemble ==
    /\ pc = "assemble"
    /\ nav_df' = ResultFrame(all_dates, assets_securities, cash_balance,
                             liabilities, dividends, units_series)
    /\ pc' = "save_nav"
    /\ UNCHANGED <<err, csv, holdings, prices, cashflows, units, all_dates,
                   holdings_pivot, prices_pivot, assets_securities,
                   cash_balance, liabilities, dividends, units_series, daily_nav>>

---------------------------------------------------------------------------
(* save_nav: df.to_csv(output_path, index=False) writes the rows in order. *)

SaveNav ==
    /\ pc = "save_nav"
    /\ daily_nav' = nav_df
    /\ pc' = "done"
    /\ UNCHANGED <<err, csv, holdings, prices, cashflows, units, all_dates,
                   holdings_pivot, prices_pivot, assets_securities,
                   cash_balance, liabilities, dividends, units_series, nav_df>>

---------------------------------------------------------------------------
(* The frame a run of load_data and compute_nav returns on input files    *)
(* that raise no exception: the composition of the stages above.          *)

ComputeNavRows(in) ==
    LET h     == NormalizeDates(in.holdings)
        p     == NormalizeDates(in.prices)
        c     == NormalizeDates(in.cashflows)
        u     == NormalizeDates(in.units)
        all   == FrameDates(h) \cup FrameDates(p) \cup FrameDates(c) \cup FrameDates(u)
        dates == DateRange(SetMin(all), SetMax(all))
    IN  ResultFrame(dates,
                    CalculateAssetsSeries(PrepareHoldingsFrame(h, dates),
                                          PreparePricesFrame(p, dates)),
                    CashBalanceSeries(c, dates),
                    LiabilitiesSeries(c, dates),
                    DividendSeries(c, dates),
                    UnitsFilled(u, dates))

---------------------------------------------------------------------------

Next ==
    \/ LoadData
    \/ PrepareHoldings
    \/ PreparePrices
    \/ CalculateAssets
    \/ CalculateCashAndLiabilities
    \/ PrepareUnits
    \/ Assemble
    \/ SaveNav

Spec == Init /\ [][Next]_vars

---------------------------------------------------------------------------
(* The properties are stated on the rows of the input files (csv), not on *)
(* the frames the pipeline derives from them.                             *)

DayOf(t) == t \div TicksPerDay

AllFilesNonEmpty ==
    csv.holdings # <<>> /\ csv.prices # <<>> /\ csv.cashflows # <<>> /\ csv.units # <<>>

InputDays ==
    { DayOf(csv.holdings[i].date)  : i \in 1..Len(csv.holdings) } \cup
    { DayOf(csv.prices[i].date)    : i \in 1..Len(csv.prices) } \cup
    { DayOf(csv.cashflows[i].date) : i \in 1..Len(csv.cashflows) } \cup
    { DayOf(csv.units[i].date)     : i \in 1..Len(csv.units) }

FirstDay == SetMin(InputDays)
LastDay  == SetMax(InputDays)

\* The day of the i-th date of the canonical range.
RangeDay(i) == FirstDay + (i - 1)

Returned == pc \in {"save_nav", "done"}

DividendLabels == {DividendLabel, DividendFee}
FeeLabels      == {MgmtFeeUpper, DividendFee, ManagementFee}

\* Sum of the amounts of the cash-flow rows of the given days and labels.
AmountOf(ledger, days, labels) ==
    LET K == { k \in 1..Len(ledger) :
                 DayOf(ledger[k].date) \in days /\ ledger[k].type \in labels }
    IN  SetSum(K, [k \in K |-> ledger[k].amount])

AnyLabel == { csv.cashflows[k].type : k \in 1..Len(csv.cashflows) }

\* C1: whenever compute_nav returns, the result has one row per calendar
\* day from the earliest to the latest day found in the four inputs (row
\* count = max_date - min_date + 1), starting at the earliest day, each row
\* exactly one day after the previous one.
C1_OneRowPerDay ==
    Returned =>
        /\ Len(nav_df) = LastDay - FirstDay + 1
        /\ nav_df[1].date = FirstDay
        /\ \A i \in 1..(Len(nav_df) - 1) : nav_df[i + 1].date = nav_df[i].date + 1

\* A returned frame of three days built from a row stamped after midnight.
C1_Witness ==
    /\ pc = "done"
    /\ Len(nav_df) >= 3
    /\ \E i \in 1..Len(csv.units) : csv.units[i].date % TicksPerDay # 0

\* C2: in every returned row, net_assets = assets_from_securities +
\* cash_balance + cumulative_dividends - liabilities, cumulative_dividends
\* is the sum of the dividend amounts dated up to and including the row's
\* day, and nav_per_unit = net_assets / units_outstanding; the scenario of
\* the specification gives nav_per_unit 20 on day 1 and 22 on day 2.
C2_NavFormula ==
    Returned =>
        /\ \A i \in 1..Len(nav_df) :
            LET r == nav_df[i] IN
            /\ r.cumulative_dividends =
                  AmountOf(csv.cashflows, FirstDay..r.date, DividendLabels)
            /\ r.net_assets = r.assets_from_securities + r.cash_balance
                                + r.cumulative_dividends - r.liabilities
            /\ r.units_outstanding # NaN
            /\ IF r.units_outstanding[1] # 0
               THEN /\ r.nav_per_unit.den > 0
                    /\ r.nav_per_unit.num * r.units_outstanding[1]
                          = r.net_assets * r.nav_per_unit.den
               ELSE r.nav_per_unit.den = 0
        /\ csv = ScenarioNav =>
            /\ Len(nav_df) = 2
            /\ nav_df[1].net_assets = 2000
            /\ nav_df[1].nav_per_unit = [num |-> 20, den |-> 1]
            /\ nav_df[2].assets_from_securities = 1200
            /\ nav_df[2].cash_balance = 1000
            /\ nav_df[2].net_assets = 2200
            /\ nav_df[2].nav_per_unit = [num |-> 22, den |-> 1]

\* A returned row with liabilities, dividends and a fractional NAV.
C2_Witness ==
    /\ pc = "done"
    /\ \E i \in 1..Len(nav_df) :
        /\ nav_df[i].liabilities > 0
        /\ nav_df[i].cumulative_dividends # 0
        /\ nav_df[i].nav_per_unit.den = 2

\* The units ledger has no row on (or before) the first day of the range.
UnitsStartLate ==
    /\ AllFilesNonEmpty
    /\ \A i \in 1..Len(csv.units) : DayOf(csv.units[i].date) > FirstDay

NoOutput ==
    /\ pc \notin {"assemble", "save_nav", "done"}
    /\ nav_df = <<>>
    /\ daily_nav = <<>>

PricesRepeatEntry ==
    \E i, j \in 1..Len(csv.prices) :
        /\ i # j
        /\ DayOf(csv.prices[i].date) = DayOf(csv.prices[j].date)
        /\ csv.prices[i].ticker = csv.prices[j].ticker

UnitsRepeatDay ==
    \E i, j \in 1..Len(csv.units) :
        i # j /\ DayOf(csv.units[i].date) = DayOf(csv.units[j].date)

\* C3 as stated: if the units ledger has no row on or before the first
\* date of the range, the run fails with MissingUnitsError before the NAV
\* assembly and produces no output row.
C3_AsStated ==
    UnitsStartLate =>
        /\ NoOutput
        /\ pc = "failed" => err = MissingUnitsError

\* C3 amended: if the units ledger has no row on or before the first date
\* of the range, the run never reaches the NAV assembly and produces no
\* output row; it fails with MissingUnitsError, unless prices.csv repeats a
\* (date, ticker) or the units ledger repeats a date, in which case the
\* pivot or the reindex raises its duplicate error first.
C3_FailsBeforeAssembly ==
    UnitsStartLate =>
        /\ NoOutput
        /\ pc = "failed" =>
              err = IF PricesRepeatEntry THEN DuplicateEntries
                    ELSE IF UnitsRepeatDay THEN DuplicateLabels
                    ELSE MissingUnitsError

\* The run failed on a units ledger that starts after the first date and
\* covers the later dates.
C3_Witness ==
    /\ pc = "failed"
    /\ err = MissingUnitsError
    /\ UnitsStartLate
    /\ Len(all_dates) >= 3
    /\ \E i \in 1..Len(csv.units) : DayOf(csv.units[i].date) = FirstDay + 1

\* C4: cash_balance is the running sum of all cash-flow amounts, whatever
\* the type label: on the first date it is the sum of the amounts of that
\* date's rows, and on every later date the previous balance plus the sum
\* of the amounts of that date's rows (0 when there is none).
C4_CashRunningSum ==
    cash_balance # <<>> =>
        /\ Len(cash_balance) = LastDay - FirstDay + 1
        /\ cash_balance[1] = AmountOf(csv.cashflows, {FirstDay}, AnyLabel)
        /\ \A i \in 2..Len(cash_balance) :
              cash_balance[i] = cash_balance[i - 1]
                                  + AmountOf(csv.cashflows, {RangeDay(i)}, AnyLabel)

\* Three dates, rows of two different labels on one date, a date without
\* rows, and a balance that moved on the last date.
C4_Witness ==
    /\ pc = "done"
    /\ Len(cash_balance) = 3
    /\ \E i, j \in 1..Len(csv.cashflows) :
          /\ csv.cashflows[i].date = csv.cashflows[j].date
          /\ csv.cashflows[i].type = DividendLabel
          /\ csv.cashflows[j].type = MgmtFeeUpper
          /\ DayOf(csv.cashflows[i].date) = FirstDay + 2
    /\ cash_balance[2] = cash_balance[1]
    /\ cash_balance[3] # cash_balance[2]

NonDecreasing(s) == \A i \in 1..(Len(s) - 1) : s[i] <= s[i + 1]

AllAmountsNonNegative ==
    \A k \in 1..Len(csv.cashflows) : csv.cashflows[k].amount >= 0

\* C5 as stated: cash_balance is monotonic non-decreasing if and only if
\* all cash-flow amounts are non-negative.
C5_AsStated ==
    cash_balance # <<>> => (NonDecreasing(cash_balance) <=> AllAmountsNonNegative)

\* C5 amended: cash_balance is monotonic non-decreasing if and only if, on
\* every date of the range after the first, the amounts of that date's rows
\* sum to a non-negative value; all amounts being non-negative is
\* sufficient for that, not necessary.
C5_MonotoneIffDailyNetNonNegative ==
    cash_balance # <<>> =>
        /\ NonDecreasing(cash_balance) <=>
              \A d \in (FirstDay + 1)..LastDay :
                  AmountOf(csv.cashflows, {d}, AnyLabel) >= 0
        /\ AllAmountsNonNegative => NonDecreasing(cash_balance)

\* A non-decreasing balance over three dates although a later date has a
\* negative amount, offset by a positive one of the same date.
C5_Witness ==
    /\ pc = "done"
    /\ Len(cash_balance) = 3
    /\ NonDecreasing(cash_balance)
    /\ cash_balance[3] > cash_balance[1]
    /\ \E k \in 1..Len(csv.cashflows) :
          csv.cashflows[k].amount < 0 /\ DayOf(csv.cashflows[k].date) > FirstDay

Max0(x) == IF x > 0 THEN x ELSE 0

\* C6: on every date of the range, liabilities = max(0, -S) where S is the
\* sum of the amounts of that date's rows whose type contains "fee" in any
\* letter case; so liabilities are never negative, a positive fee entry
\* gives 0, and the daily dividend amounts are the sums over the rows whose
\* type contains "dividend" only: a fee row without "dividend" in its type
\* adds nothing to cumulative_dividends.  In the scenario, a "management
\* fee" of -50 gives liabilities 50 on its date and dividends 0 throughout.
C6_LiabilitiesFloored ==
    liabilities # <<>> =>
        /\ Len(liabilities) = LastDay - FirstDay + 1
        /\ Len(dividends) = Len(liabilities)
        /\ \A i \in 1..Len(liabilities) :
            /\ liabilities[i] = Max0(- AmountOf(csv.cashflows, {RangeDay(i)}, FeeLabels))
            /\ liabilities[i] >= 0
            /\ dividends[i] = AmountOf(csv.cashflows, {RangeDay(i)}, DividendLabels)
        /\ (csv = ScenarioFee /\ Returned) =>
            /\ nav_df[1].liabilities = 0
            /\ nav_df[2].liabilities = 50
            /\ nav_df[1].cumulative_dividends = 0
            /\ nav_df[2].cumulative_dividends = 0

\* A returned frame with a positive fee entry (liability 0) on one date and
\* a fee outflow (liability > 0) on another.
C6_Witness ==
    /\ pc = "done"
    /\ \E i, j \in 1..Len(csv.cashflows) :
          /\ csv.cashflows[i].type = MgmtFeeUpper
          /\ csv.cashflows[i].amount > 0
          /\ csv.cashflows[j].type = MgmtFeeUpper
          /\ csv.cashflows[j].amount < 0
          /\ DayOf(csv.cashflows[i].date) = FirstDay
          /\ DayOf(csv.cashflows[j].date) = FirstDay + 1
    /\ nav_df[1].liabilities = 0
    /\ nav_df[2].liabilities = 1

HeldTickers == { csv.holdings[k].ticker : k \in 1..Len(csv.holdings) }
PricedTickers == { csv.prices[k].ticker : k \in 1..Len(csv.prices) }

HoldingDays(t) ==
    { DayOf(csv.holdings[k].date) : k \in { j \in 1..Len(csv.holdings) : csv.holdings[j].ticker = t } }

\* Sum of the quantities of the holding rows of ticker t dated day d.
QuantityOn(t, d) ==
    LET K == { k \in 1..Len(csv.holdings) :
                 csv.holdings[k].ticker = t /\ DayOf(csv.holdings[k].date) = d }
    IN  SetSum(K, [k \in K |-> csv.holdings[k].quantity])

\* C7: for a ticker whose holding rows all fall on one day D, with summed
\* quantity q, the position matrix holds q on every date of the range from
\* D on and 0 on every date before D; the matrix has a column per held
\* ticker, a row per date, and no missing cell.
C7_HoldingsForwardFill ==
    holdings_pivot # <<>> =>
        /\ holdings_pivot.cols = HeldTickers
        /\ Len(holdings_pivot.rows) = LastDay - FirstDay + 1
        /\ \A i \in 1..Len(holdings_pivot.rows) : \A t \in HeldTickers :
            /\ holdings_pivot.rows[i][t] # NaN
            /\ Cardinality(HoldingDays(t)) = 1 =>
                  LET D == CHOOSE d \in HoldingDays(t) : TRUE
                  IN  holdings_pivot.rows[i][t] =
                        IF RangeDay(i) >= D THEN << QuantityOn(t, D) >> ELSE << 0 >>

\* Two rows of one ticker on the middle day of a three-day range.
C7_Witness ==
    /\ holdings_pivot # <<>>
    /\ Len(holdings_pivot.rows) = 3
    /\ \E t \in HeldTickers :
          /\ HoldingDays(t) = {FirstDay + 1}
          /\ Len(csv.holdings) = 2
          /\ \A k \in 1..2 : csv.holdings[k].ticker = t
          /\ holdings_pivot.rows[1][t] = << 0 >>
          /\ holdings_pivot.rows[3][t] = << 1 >>

\* The position of ticker t on day d: the summed quantity of its most
\* recent holding day on or before d, 0 when there is none.
PositionOn(t, d) ==
    LET past == { x \in HoldingDays(t) : x <= d }
    IN  IF past = {} THEN 0 ELSE QuantityOn(t, SetMax(past))

PriceDays(t) ==
    { DayOf(csv.prices[k].date) : k \in { j \in 1..Len(csv.prices) : csv.prices[j].ticker = t } }

\* The value of ticker t on day d at its most recent close on or before d,
\* 0 when no close was observed on or before d.
ValueOn(t, d) ==
    LET past == { x \in PriceDays(t) : x <= d }
    IN  IF past = {} THEN 0
        ELSE LET k == CHOOSE j \in 1..Len(csv.prices) :
                        csv.prices[j].ticker = t /\ DayOf(csv.prices[j].date) = SetMax(past)
             IN  PositionOn(t, d) * csv.prices[k].close

\* C8: on every date of the range, assets_from_securities is the sum over
\* the tickers found in holdings or prices of position * price, the price
\* being the most recent close on or before the date; a ticker without a
\* close on or before the date, or without holdings, contributes 0.
C8_AssetsAreMarketValue ==
    assets_securities # <<>> =>
        /\ Len(assets_securities) = LastDay - FirstDay + 1
        /\ \A i \in 1..Len(assets_securities) :
              LET T == HeldTickers \cup PricedTickers
              IN  assets_securities[i] = SetSum(T, [t \in T |-> ValueOn(t, RangeDay(i))])

\* A held ticker priced only from the second date on, carried to the third
\* date, and another ticker priced but never held.
C8_Witness ==
    /\ assets_securities # <<>>
    /\ Len(assets_securities) = 3
    /\ HeldTickers = {"A"}
    /\ PricedTickers = {"A", "B"}
    /\ PriceDays("A") = {FirstDay + 1}
    /\ HoldingDays("A") = {FirstDay}
    /\ assets_securities[1] = 0
    /\ assets_securities[2] # 0
    /\ assets_securities[3] = assets_securities[2]

\* C9: if any of the four input files has no row, the run fails in
\* load_data with EmptyInputError: no date range is built from the other
\* files, no later stage runs and nothing is output.
C9_EmptyInputFails ==
    ~AllFilesNonEmpty =>
        /\ pc \in {"load_data", "failed"}
        /\ pc = "failed" => err = EmptyInputError
        /\ all_dates = <<>>
        /\ nav_df = <<>>
        /\ daily_nav = <<>>

\* The run failed on an empty prices file although the three other files
\* have rows.
C9_Witness ==
    /\ pc = "failed"
    /\ err = EmptyInputError
    /\ csv.prices = <<>>
    /\ csv.holdings # <<>>
    /\ csv.cashflows # <<>>
    /\ csv.units # <<>>

\* The ledger without its k-th row.
WithoutRow(ledger, k) ==
    [i \in 1..(Len(ledger) - 1) |-> IF i < k THEN ledger[i] ELSE ledger[i + 1]]

\* C10: dividend rows are part of the generic cash-flow sum.  Compared with
\* the run on the same files without one row of amount a dated D whose type
\* contains "dividend" and not "fee", the returned frame has cash_balance
\* and cumulative_dividends higher by a, and net_assets higher by 2a, on
\* every date >= D, and the same values on every date < D (on the dates
\* both runs cover).
C10_DividendCountedTwice ==
    Returned =>
        \A k \in 1..Len(csv.cashflows) :
            LET r == csv.cashflows[k]
                rest == WithoutRow(csv.cashflows, k)
            IN  (r.type \in (DividendLabels \ FeeLabels) /\ rest # <<>>) =>
                  LET base == ComputeNavRows([csv EXCEPT !.cashflows = rest])
                  IN  \A i \in 1..Len(nav_df) : \A j \in 1..Len(base) :
                        nav_df[i].date = base[j].date =>
                          LET rise == IF nav_df[i].date >= DayOf(r.date)
                                      THEN r.amount ELSE 0
                          IN  /\ nav_df[i].cash_balance = base[j].cash_balance + rise
                              /\ nav_df[i].cumulative_dividends
                                    = base[j].cumulative_dividends + rise
                              /\ nav_df[i].net_assets = base[j].net_assets + 2 * rise
                              /\ nav_df[i].assets_from_securities
                                    = base[j].assets_from_securities
                              /\ nav_df[i].liabilities = base[j].liabilities

\* A returned frame of three dates whose ledger has a dividend row on the
\* second date and a subscription on the third.
C10_Witness ==
    /\ pc = "done"
    /\ Len(nav_df) = 3
    /\ Len(csv.cashflows) = 2
    /\ csv.cashflows[1].type = DividendLabel
    /\ DayOf(csv.cashflows[1].date) = FirstDay + 1
    /\ csv.cashflows[2].type = Subscription
    /\ DayOf(csv.cashflows[2].date) = FirstDay + 2
    /\ nav_df[1].cumulative_dividends = 0
    /\ nav_df[2].cumulative_dividends = csv.cashflows[1].amount

============================================================================
